---- MODULE Spec2Model ----
(***************************************************************************)
(* Model of app.py: the WordPress CPT API generator.  One press of the     *)
(* "Generate Complete API Documentation" button runs the script from the   *)
(* top: URL auto-detection and validation, the memoized fetch with its     *)
(* retry loop, then analysis, rendering and export of the catalog.         *)
(***************************************************************************)
EXTENDS Integers, Sequences, FiniteSets, TLC

\* ------------------------------------------------------------------------
\* Bounds of the model
\* ------------------------------------------------------------------------
MaxRetries == 3      \* the "Max Retries" slider is explored over 1..MaxRetries
MaxCpts == 2         \* a decoded catalog holds at most MaxCpts entries
MaxRuns == 2         \* button presses followed in one session
MaxTicks == 2        \* half-TTL steps the wall clock is followed for
MaxSupports == 2     \* length of the supports lists explored

\* ------------------------------------------------------------------------
\* Strings that the code inspects are sequences of characters
\* ------------------------------------------------------------------------
HttpPrefix == <<"h", "t", "t", "p">>
SchemeSep == <<":", "/", "/">>
TypesPath == <<"/", "w", "p", "-", "j", "s", "o", "n", "/", "w", "p", "/", "v", "2", "/", "t", "y", "p", "e", "s">>

StartsWith(s, p) == /\ Len(s) >= Len(p)
                    /\ SubSeq(s, 1, Len(p)) = p

\* least index i >= from with s[i] \in cs, or 0 when there is none
RECURSIVE FindFrom(_, _, _)
FindFrom(s, cs, from) ==
    IF from > Len(s) THEN 0
    ELSE IF s[from] \in cs THEN from
    ELSE FindFrom(s, cs, from + 1)

SchemeChars == {"a", "c", "e", "f", "h", "m", "o", "p", "s", "t", "x", "+", "-", "."}
Letters == SchemeChars \ {"+", "-", "."}

\* urlparse(api_url): the scheme is what precedes the first ":" when it is a
\* letter followed by scheme characters; the netloc is what follows a leading
\* "//" of the rest, up to the next "/", "?" or "#"
UrlParse(u) ==
    LET i == FindFrom(u, {":"}, 1)
        hasScheme == /\ i > 1
                     /\ u[1] \in Letters
                     /\ \A k \in 1..(i - 1) : u[k] \in SchemeChars
        scheme == IF hasScheme THEN SubSeq(u, 1, i - 1) ELSE << >>
        rest == IF hasScheme THEN SubSeq(u, i + 1, Len(u)) ELSE u
        hasNetloc == StartsWith(rest, <<"/", "/">>)
        j == FindFrom(rest, {"/", "?", "#"}, 3)
        netloc == IF ~hasNetloc THEN << >>
                  ELSE IF j = 0 THEN SubSeq(rest, 3, Len(rest))
                  ELSE SubSeq(rest, 3, j - 1)
    IN [scheme |-> scheme, netloc |-> netloc]

\* lines 176-182: the URL in effect after the optional auto-detection
AutoDetect(u, auto) ==
    IF auto /\ u # << >> /\ UrlParse(u).netloc # << >>
    THEN UrlParse(u).scheme \o SchemeSep \o UrlParse(u).netloc \o TypesPath
    ELSE u

\* the texts a user may type into the URL box
UrlEmpty == << >>
UrlTypes == <<"h", "t", "t", "p", "s", ":", "/", "/", "a">> \o TypesPath
UrlHome == <<"h", "t", "t", "p", ":", "/", "/", "a", "/", "x">>
UrlFtp == <<"f", "t", "p", ":", "/", "/", "a", "/", "x">>
UrlBare == <<"a", ".", "c", "o", "m">>
UrlNoScheme == <<"/", "/", "a">>
UrlHttpWord == <<"h", "t", "t", "p", "x">>
Urls == {UrlEmpty, UrlTypes, UrlHome, UrlFtp, UrlBare, UrlNoScheme, UrlHttpWord}

\* ------------------------------------------------------------------------
\* Decoded JSON bodies.  A body is a mapping (an insertion-ordered sequence
\* of slug/value entries) or a list; a value is a mapping (a CPT record,
\* with the set of keys it holds) or the string "invalid".
\* ------------------------------------------------------------------------
Slugs == <<"book", "event", "film", "gig">>

DBook == [kind |-> "dict", keys |-> {"name", "rest_base", "supports", "public"},
          public |-> TRUE, hierarchical |-> FALSE, supports |-> <<"title", "editor">>]
DBare == [kind |-> "dict", keys |-> {"name", "rest_base"},
          public |-> FALSE, hierarchical |-> FALSE, supports |-> << >>]
DInvalid == [kind |-> "str", keys |-> {},
             public |-> FALSE, hierarchical |-> FALSE, supports |-> << >>]
DetailsSet == {DBook, DBare, DInvalid}

\* the bodies with exactly n entries; a mapping's slugs are distinct
RECURSIVE ItemsOfLen(_)
ItemsOfLen(n) ==
    IF n = 0 THEN {<< >>}
    ELSE {Append(it, [slug |-> Slugs[n], details |-> d]) :
              it \in ItemsOfLen(n - 1), d \in DetailsSet}

Bodies == {[kind |-> k, items |-> it] :
               k \in {"dict", "list"},
               it \in UNION {ItemsOfLen(n) : n \in 0..MaxCpts}}

NoBody == [kind |-> "none", items |-> << >>]

\* variant of Get that reads the field whether the key is held or not
GetNoDefault(d, key, value, default) == value

\* d.get(key, default) on a mapping
Get(d, key, value, default) == IF key \in d.keys THEN value ELSE default

\* variant of Truthy that takes every container for non-empty
TruthyAlways(body) == body.kind \in {"dict", "list"}

\* Python truthiness of a decoded body: empty containers are falsy
Truthy(body) == body.items # << >>

\* ------------------------------------------------------------------------
\* analyze_cpt_structure (lines 249-276).  raised = TRUE stands for the
\* AttributeError of .items() on a non-mapping body or of .get() on a
\* non-mapping value, which nothing catches.
\* ------------------------------------------------------------------------
\* (the taxonomies and capabilities maps are filled like the supports map and
\* are left out)
NoAnalysis == [raised |-> FALSE, total_cpts |-> 0, public_cpts |-> << >>,
               private_cpts |-> << >>, hierarchical_cpts |-> << >>,
               supports |-> << >>]

RECURSIVE AnalyzeLoop(_, _, _)
AnalyzeLoop(items, i, acc) ==
    IF i > Len(items) THEN acc
    ELSE LET slug == items[i].slug
             details == items[i].details
         IN IF details.kind # "dict"
            THEN [acc EXCEPT !.raised = TRUE]
            ELSE AnalyzeLoop(items, i + 1,
                   [acc EXCEPT
                      !.public_cpts = IF Get(details, "public", details.public, FALSE)
                                      THEN Append(@, slug) ELSE @,
                      !.private_cpts = IF Get(details, "public", details.public, FALSE)
                                       THEN @ ELSE Append(@, slug),
                      !.hierarchical_cpts =
                          IF Get(details, "hierarchical", details.hierarchical, FALSE)
                          THEN Append(@, slug) ELSE @,
                      !.supports =
                          Append(@, [slug |-> slug,
                                     supports |-> Get(details, "supports",
                                                      details.supports, << >>)])])

analyze_cpt_structure(cpt_data) ==
    LET analysis == [NoAnalysis EXCEPT !.total_cpts = Len(cpt_data.items)]
    IN IF cpt_data.kind # "dict"
       THEN [analysis EXCEPT !.raised = TRUE]
       ELSE AnalyzeLoop(cpt_data.items, 1, analysis)

\* ------------------------------------------------------------------------
\* generate_field_mapping (lines 279-322).  A mapping is the insertion-
\* ordered sequence of its fields; readonly is config.get('readonly', False).
\* ------------------------------------------------------------------------
Field(name, type, readonly) == [name |-> name, type |-> type, readonly |-> readonly]

\* variant of base_fields with eleven fields: meta is missing
base_fields_eleven ==
    << Field("id", "integer", TRUE),
       Field("date", "string", FALSE),
       Field("date_gmt", "string", FALSE),
       Field("guid", "object", TRUE),
       Field("modified", "string", TRUE),
       Field("modified_gmt", "string", TRUE),
       Field("password", "string", FALSE),
       Field("slug", "string", FALSE),
       Field("status", "string", FALSE),
       Field("type", "string", TRUE),
       Field("link", "string", TRUE) >>

base_fields ==
    << Field("id", "integer", TRUE),
       Field("date", "string", FALSE),
       Field("date_gmt", "string", FALSE),
       Field("guid", "object", TRUE),
       Field("modified", "string", TRUE),
       Field("modified_gmt", "string", TRUE),
       Field("password", "string", FALSE),
       Field("slug", "string", FALSE),
       Field("status", "string", FALSE),
       Field("type", "string", TRUE),
       Field("link", "string", TRUE),
       Field("meta", "object", FALSE) >>

\* x in supports, for a list
InList(x, list) == \E i \in 1..Len(list) : list[i] = x

\* mapping[f.name] = f: replaces the field of that name or appends a new one
SetField(mapping, f) ==
    IF \E i \in 1..Len(mapping) : mapping[i].name = f.name
    THEN [i \in 1..Len(mapping) |->
              IF mapping[i].name = f.name THEN f ELSE mapping[i]]
    ELSE Append(mapping, f)

\* the conditional fields, in the order of the if statements
ConditionalFields ==
    << [tag |-> "title", fields |-> <<Field("title", "object", FALSE)>>],
       [tag |-> "editor", fields |-> <<Field("content", "object", FALSE)>>],
       [tag |-> "excerpt", fields |-> <<Field("excerpt", "object", FALSE)>>],
       [tag |-> "author", fields |-> <<Field("author", "integer", FALSE)>>],
       [tag |-> "thumbnail", fields |-> <<Field("featured_media", "integer", FALSE)>>],
       [tag |-> "comments", fields |-> <<Field("comment_status", "string", FALSE),
                                       Field("ping_status", "string", FALSE)>>],
       [tag |-> "page-attributes", fields |-> <<Field("menu_order", "integer", FALSE),
                                              Field("parent", "integer", FALSE)>>] >>

RECURSIVE SetFields(_, _, _)
SetFields(mapping, fields, i) ==
    IF i > Len(fields) THEN mapping
    ELSE SetFields(SetField(mapping, fields[i]), fields, i + 1)

\* variant of AddConditional that chains the tests with elif: only the first
\* tag found adds its fields
RECURSIVE AddConditionalElif(_, _, _)
AddConditionalElif(mapping, list, i) ==
    IF i > Len(ConditionalFields) THEN mapping
    ELSE IF InList(ConditionalFields[i].tag, list)
    THEN SetFields(mapping, ConditionalFields[i].fields, 1)
    ELSE AddConditionalElif(mapping, list, i + 1)

RECURSIVE AddConditional(_, _, _)
AddConditional(mapping, list, i) ==
    IF i > Len(ConditionalFields) THEN mapping
    ELSE AddConditional(
             IF InList(ConditionalFields[i].tag, list)
             THEN SetFields(mapping, ConditionalFields[i].fields, 1)
             ELSE mapping,
             list, i + 1)

generate_field_mapping(cpt_slug, list) == AddConditional(base_fields, list, 1)

FieldNames(mapping) == {mapping[i].name : i \in 1..Len(mapping)}

\* ------------------------------------------------------------------------
\* The CRUD templates of one CPT (lines 986-1065)
\* ------------------------------------------------------------------------
Placeholder(name) == "{{" \o name \o "}}"

MetaBody == << [key |-> "custom_field_1", value |-> "{{custom_value_1}}"],
              [key |-> "custom_field_2", value |-> "{{custom_value_2}}"],
              [key |-> "acf_field", value |-> "{{acf_value}}"],
              [key |-> "_custom_meta", value |-> "{{meta_value}}"] >>

\* the value written at post_body[field]: a nested object for meta, a
\* {raw: placeholder} object for title/content/excerpt, else a placeholder
BodyValue(field) ==
    IF field = "meta"
    THEN [shape |-> "object", members |-> MetaBody]
    ELSE IF field \in {"title", "content", "excerpt"}
    THEN [shape |-> "object",
          members |-> <<[key |-> "raw", value |-> Placeholder(field)]>>]
    ELSE [shape |-> "string",
          members |-> <<[key |-> "", value |-> Placeholder(field)]>>]

\* variant of Writable that lets read-only fields into the body
WritableAll(config) == config.readonly \/ ~config.readonly

\* line 988: the field goes into the body
Writable(config) == ~config.readonly

RECURSIVE BuildPostBody(_, _, _)
BuildPostBody(mapping, i, body) ==
    IF i > Len(mapping) THEN body
    ELSE BuildPostBody(mapping, i + 1,
             IF Writable(mapping[i])
             THEN Append(body, [field |-> mapping[i].name,
                                value |-> BodyValue(mapping[i].name)])
             ELSE body)

\* the text of a URL held as a sequence of characters
RECURSIVE Text(_)
Text(chars) == IF chars = << >> THEN "" ELSE Head(chars) \o Text(Tail(chars))

\* lines 833-834 and 877
BaseUrl(u) == Text(UrlParse(u).scheme) \o "://" \o Text(UrlParse(u).netloc)
Endpoint(base, cpt_slug) == base \o "/wp-json/wp/v2/" \o cpt_slug

NoRequest == [method |-> "", url |-> "", body |-> << >>, queryParameters |-> << >>]

PostRequest(endpoint, body) ==
    [method |-> "POST", url |-> endpoint, body |-> body, queryParameters |-> << >>]
PutRequest(endpoint, body) ==
    [method |-> "PUT", url |-> endpoint \o "/{{post_id}}", body |-> body,
     queryParameters |-> << >>]
\* variant of DeleteSoft that addresses the collection
DeleteSoftCollection(endpoint) ==
    [method |-> "DELETE", url |-> endpoint, body |-> << >>,
     queryParameters |-> <<[key |-> "force", value |-> FALSE]>>]

DeleteSoft(endpoint) ==
    [method |-> "DELETE", url |-> endpoint \o "/{{post_id}}", body |-> << >>,
     queryParameters |-> <<[key |-> "force", value |-> FALSE]>>]
DeleteHard(endpoint) ==
    [method |-> "DELETE", url |-> endpoint \o "/{{post_id}}", body |-> << >>,
     queryParameters |-> <<[key |-> "force", value |-> TRUE]>>]

\* ------------------------------------------------------------------------
\* generate_n8n_workflows (lines 525-727).  A workflow document is its name,
\* its nodes and its connections; of a node the name, the id, the HTTP
\* method and the URL are kept ("" where the node has none), of a connection
\* the name it is filed under and the nodes it leads to.
\* ------------------------------------------------------------------------
\* str.upper() on the slugs of the model
Upper(slug) == CASE slug = "book" -> "BOOK"
                 [] slug = "event" -> "EVENT"
                 [] slug = "film" -> "FILM"
                 [] slug = "gig" -> "GIG"

\* str.title() on the slugs of the model
Title(slug) == CASE slug = "book" -> "Book"
                 [] slug = "event" -> "Event"
                 [] slug = "film" -> "Film"
                 [] slug = "gig" -> "Gig"

WorkflowNode(name, id, httpMethod, nodeUrl) ==
    [name |-> name, id |-> id, httpMethod |-> httpMethod, url |-> nodeUrl]
Connection(source, targets) == [source |-> source, targets |-> targets]

NoWorkflow == [name |-> "", nodes |-> << >>, connections |-> << >>]
NoWorkflows == [complete_crud |-> NoWorkflow, sync_workflow |-> NoWorkflow]

generate_n8n_workflows(cpt_slug, endpoint, mapping) ==
    [complete_crud |->
         [name |-> "WordPress " \o Upper(cpt_slug) \o " - Complete CRUD Operations",
          nodes |-> <<
              WorkflowNode("Fetch All " \o Title(cpt_slug), "fetch_all", "GET", endpoint),
              WorkflowNode("Process Data", "process_data", "", ""),
              WorkflowNode("Filter Valid Items", "filter_valid", "", ""),
              WorkflowNode("Create New " \o Title(cpt_slug), "create_new", "POST",
                           endpoint),
              WorkflowNode("Update " \o Title(cpt_slug), "update_item", "PUT",
                           endpoint \o "/{{$json.id}}"),
              WorkflowNode("Delete " \o Title(cpt_slug), "delete_item", "DELETE",
                           endpoint \o "/{{$json.id}}") >>,
          connections |-> <<
              Connection("Fetch All", <<"Process Data">>),
              Connection("Process Data", <<"Filter Valid Items">>),
              Connection("Filter Valid Items",
                         <<"Update " \o Title(cpt_slug),
                           "Delete " \o Title(cpt_slug)>>) >>],
     sync_workflow |->
         [name |-> "WordPress " \o Upper(cpt_slug) \o " - Data Sync",
          nodes |-> <<
              WorkflowNode("Schedule Trigger", "schedule_trigger", "", ""),
              WorkflowNode("Fetch Recent Changes", "fetch_recent", "GET", endpoint) >>,
          connections |-> <<
              Connection("Schedule Trigger", <<"Fetch Recent Changes">>) >>]]

\* ------------------------------------------------------------------------
\* JSON.  A value is an object (its members in order), an array, a string,
\* a number or a boolean; a text is the sequence of its tokens (white space
\* and indentation carry no meaning).
\* ------------------------------------------------------------------------
JObj(members) == [t |-> "object", v |-> members]
JArr(elements) == [t |-> "array", v |-> elements]
JStr(str) == [t |-> "string", v |-> str]
JNum(n) == [t |-> "number", v |-> n]
JBool(b) == [t |-> "bool", v |-> b]
Member(key, value) == [k |-> key, v |-> value]

Punct(c) == [k |-> c, s |-> "", n |-> 0]
StrTok(str) == [k |-> "string", s |-> str, n |-> 0]
NumTok(n) == [k |-> "number", s |-> "", n |-> n]

\* json.dumps
RECURSIVE Encode(_), EncodeMembers(_, _), EncodeElements(_, _)
Encode(j) ==
    CASE j.t = "object" -> <<Punct("{")>> \o EncodeMembers(j.v, 1) \o <<Punct("}")>>
      [] j.t = "array" -> <<Punct("[")>> \o EncodeElements(j.v, 1) \o <<Punct("]")>>
      [] j.t = "string" -> <<StrTok(j.v)>>
      [] j.t = "number" -> <<NumTok(j.v)>>
      [] j.t = "bool" -> <<Punct(IF j.v THEN "true" ELSE "false")>>

EncodeMembers(ms, i) ==
    IF i > Len(ms) THEN << >>
    ELSE (IF i > 1 THEN <<Punct(",")>> ELSE << >>)
         \o <<StrTok(ms[i].k), Punct(":")>> \o Encode(ms[i].v)
         \o EncodeMembers(ms, i + 1)

EncodeElements(es, i) ==
    IF i > Len(es) THEN << >>
    ELSE (IF i > 1 THEN <<Punct(",")>> ELSE << >>)
         \o Encode(es[i]) \o EncodeElements(es, i + 1)

\* json.loads, by recursive descent: the value that starts at token i and
\* the position after it; ok = FALSE stands for json.JSONDecodeError
ParseError == [ok |-> FALSE, val |-> JStr(""), next |-> 0]
Parsed(val, next) == [ok |-> TRUE, val |-> val, next |-> next]
KindAt(toks, i) == IF i \in 1..Len(toks) THEN toks[i].k ELSE "end"

\* obj[key] = value on a decoded object: a repeated key keeps its place and
\* takes the last value
SetMember(ms, key, value) ==
    IF \E i \in 1..Len(ms) : ms[i].k = key
    THEN [i \in 1..Len(ms) |-> IF ms[i].k = key THEN Member(key, value) ELSE ms[i]]
    ELSE Append(ms, Member(key, value))

RECURSIVE ParseValue(_, _), ParseMembers(_, _, _), ParseElements(_, _, _)
ParseValue(toks, i) ==
    CASE KindAt(toks, i) = "{" ->
             IF KindAt(toks, i + 1) = "}"
             THEN Parsed(JObj(<< >>), i + 2)
             ELSE ParseMembers(toks, i + 1, << >>)
      [] KindAt(toks, i) = "[" ->
             IF KindAt(toks, i + 1) = "]"
             THEN Parsed(JArr(<< >>), i + 2)
             ELSE ParseElements(toks, i + 1, << >>)
      [] KindAt(toks, i) = "string" -> Parsed(JStr(toks[i].s), i + 1)
      [] KindAt(toks, i) = "number" -> Parsed(JNum(toks[i].n), i + 1)
      [] KindAt(toks, i) = "true" -> Parsed(JBool(TRUE), i + 1)
      [] KindAt(toks, i) = "false" -> Parsed(JBool(FALSE), i + 1)
      [] OTHER -> ParseError

ParseMembers(toks, i, acc) ==
    IF KindAt(toks, i) # "string" \/ KindAt(toks, i + 1) # ":"
    THEN ParseError
    ELSE LET r == ParseValue(toks, i + 2)
         IN IF ~r.ok THEN ParseError
            ELSE IF KindAt(toks, r.next) = ","
            THEN ParseMembers(toks, r.next + 1, SetMember(acc, toks[i].s, r.val))
            ELSE IF KindAt(toks, r.next) = "}"
            THEN Parsed(JObj(SetMember(acc, toks[i].s, r.val)), r.next + 1)
            ELSE ParseError

ParseElements(toks, i, acc) ==
    LET r == ParseValue(toks, i)
    IN IF ~r.ok THEN ParseError
       ELSE IF KindAt(toks, r.next) = ","
       THEN ParseElements(toks, r.next + 1, Append(acc, r.val))
       ELSE IF KindAt(toks, r.next) = "]"
       THEN Parsed(JArr(Append(acc, r.val)), r.next + 1)
       ELSE ParseError

Decode(toks) ==
    LET r == ParseValue(toks, 1)
    IN IF r.ok /\ r.next = Len(toks) + 1 THEN r ELSE ParseError

\* ------------------------------------------------------------------------
\* The catalog and the analysis as the JSON values json.dumps walks.  The
\* texts of name and rest_base are not part of the model: the slug stands
\* for both.
\* ------------------------------------------------------------------------
StringsJson(list) == JArr([i \in 1..Len(list) |-> JStr(list[i])])

DetailKeys == <<"name", "rest_base", "public", "hierarchical", "supports">>

RECURSIVE DetailMembers(_, _, _)
DetailMembers(slug, details, i) ==
    IF i > Len(DetailKeys) THEN << >>
    ELSE (IF DetailKeys[i] \notin details.keys THEN << >>
          ELSE <<Member(DetailKeys[i],
                   CASE DetailKeys[i] = "public" -> JBool(details.public)
                     [] DetailKeys[i] = "hierarchical" -> JBool(details.hierarchical)
                     [] DetailKeys[i] = "supports" -> StringsJson(details.supports)
                     [] OTHER -> JStr(slug))>>)
         \o DetailMembers(slug, details, i + 1)

CatalogJson(catalog) ==
    JObj([i \in 1..Len(catalog.items) |->
              Member(catalog.items[i].slug,
                     JObj(DetailMembers(catalog.items[i].slug,
                                        catalog.items[i].details, 1)))])

AnalysisJson(a) ==
    JObj(<< Member("total_cpts", JNum(a.total_cpts)),
            Member("public_cpts", StringsJson(a.public_cpts)),
            Member("private_cpts", StringsJson(a.private_cpts)),
            Member("hierarchical_cpts", StringsJson(a.hierarchical_cpts)),
            Member("supports",
                   JObj([i \in 1..Len(a.supports) |->
                             Member(a.supports[i].slug,
                                    StringsJson(a.supports[i].supports))])) >>)

\* ------------------------------------------------------------------------
\* generate_export_data (lines 730-782).  clock is what datetime.now reads.
\* An export is its tokens and the syntax they are laid out in; the layout
\* of yaml.dump is not part of the model.
\* ------------------------------------------------------------------------
\* isoformat() of the clock
Timestamp(clock) == "1970-01-01T00:00:00+00:00 + " \o ToString(clock) \o "s"

PostmanFolder(cpt_slug) ==
    JObj(<< Member("name", JStr(Title(cpt_slug) \o " Operations")),
            Member("item", JArr(<<
              JObj(<< Member("name", JStr("Get All " \o cpt_slug)),
                      Member("request", JObj(<<
                        Member("method", JStr("GET")),
                        Member("header", JArr(<< >>)),
                        Member("url", JObj(<<
                          Member("raw", JStr("{{base_url}}/wp-json/wp/v2/" \o cpt_slug
                                             \o "?per_page=100")),
                          Member("host", JArr(<<JStr("{{base_url}}")>>)),
                          Member("path", JArr(<<JStr("wp-json"), JStr("wp"), JStr("v2"),
                                               JStr(cpt_slug)>>)),
                          Member("query", JArr(<<
                            JObj(<<Member("key", JStr("per_page")),
                                   Member("value", JStr("100"))>>)>>)) >>)) >>)) >>) >>)) >>)

PostmanCollection(catalog) ==
    JObj(<< Member("info", JObj(<<
              Member("name", JStr("WordPress CPT API Collection")),
              Member("description",
                     JStr("Generated WordPress Custom Post Types API collection")),
              Member("schema",
                     JStr("https://schema.getpostman.com/json/collection/v2.1.0/collection.json")) >>)),
            Member("item", JArr([i \in 1..Len(catalog.items) |->
                                     PostmanFolder(catalog.items[i].slug)])) >>)

\* variant of generate_export_data that stamps the YAML bundle too
generate_export_data_stamped(catalog, a, format_type, clock) ==
    IF format_type = "Postman Collection"
    THEN [syntax |-> "json", tokens |-> Encode(PostmanCollection(catalog))]
    ELSE [syntax |-> IF format_type = "YAML" THEN "yaml" ELSE "json",
          tokens |-> Encode(JObj(<< Member("analysis", AnalysisJson(a)),
                                    Member("cpts", CatalogJson(catalog)),
                                    Member("generated_at", JStr(Timestamp(clock))) >>))]

\* variant of generate_export_data that exports the slugs in place of the
\* catalog
generate_export_data_slugs(catalog, a, format_type, clock) ==
    IF format_type = "Postman Collection"
    THEN [syntax |-> "json", tokens |-> Encode(PostmanCollection(catalog))]
    ELSE IF format_type = "YAML"
    THEN [syntax |-> "yaml",
          tokens |-> Encode(JObj(<< Member("wordpress_cpt_api", JObj(<<
                                      Member("analysis", AnalysisJson(a)),
                                      Member("cpts", CatalogJson(catalog)) >>)) >>))]
    ELSE [syntax |-> "json",
          tokens |-> Encode(JObj(<< Member("analysis", AnalysisJson(a)),
                                    Member("cpts",
                                           StringsJson([i \in 1..Len(catalog.items) |->
                                                            catalog.items[i].slug])),
                                    Member("generated_at", JStr(Timestamp(clock))) >>))]

generate_export_data(catalog, a, format_type, clock) ==
    IF format_type = "Postman Collection"
    THEN [syntax |-> "json", tokens |-> Encode(PostmanCollection(catalog))]
    ELSE IF format_type = "YAML"
    THEN [syntax |-> "yaml",
          tokens |-> Encode(JObj(<< Member("wordpress_cpt_api", JObj(<<
                                      Member("analysis", AnalysisJson(a)),
                                      Member("cpts", CatalogJson(catalog)) >>)) >>))]
    ELSE \* the JSON branch, taken for every other format
         [syntax |-> "json",
          tokens |-> Encode(JObj(<< Member("analysis", AnalysisJson(a)),
                                    Member("cpts", CatalogJson(catalog)),
                                    Member("generated_at", JStr(Timestamp(clock))) >>))]

\* ------------------------------------------------------------------------
\* Widgets and request parameters
\* ------------------------------------------------------------------------
AuthTypes == {"None", "Basic Auth", "Application Password", "JWT Token", "OAuth 2.0"}

\* ------------------------------------------------------------------------
\* Credentials (lines 85-92, 791-797, 198-205).  The texts of the credential
\* boxes are sequences of characters; a box that is not on the page (its
\* auth type is not selected) holds no text.
\* ------------------------------------------------------------------------
\* str.encode(): the byte of each character the texts are written in
Ord(c) == CASE c = "." -> 46
            [] c = ":" -> 58
            [] c = "a" -> 97
            [] c = "k" -> 107
            [] c = "l" -> 108
            [] c = "t" -> 116
            [] c = "x" -> 120

B64Alphabet ==
    <<"A", "B", "C", "D", "E", "F", "G", "H", "I", "J", "K", "L", "M",
      "N", "O", "P", "Q", "R", "S", "T", "U", "V", "W", "X", "Y", "Z",
      "a", "b", "c", "d", "e", "f", "g", "h", "i", "j", "k", "l", "m",
      "n", "o", "p", "q", "r", "s", "t", "u", "v", "w", "x", "y", "z",
      "0", "1", "2", "3", "4", "5", "6", "7", "8", "9", "+", "/">>

B64Char(sextet) == B64Alphabet[sextet + 1]

\* base64.b64encode(...).decode(): three bytes give four characters, a
\* last group of one or two bytes is padded with "="
RECURSIVE b64encode(_)
b64encode(bytes) ==
    IF Len(bytes) = 0 THEN << >>
    ELSE IF Len(bytes) = 1
    THEN <<B64Char(bytes[1] \div 4), B64Char((bytes[1] % 4) * 16), "=", "=">>
    ELSE IF Len(bytes) = 2
    THEN <<B64Char(bytes[1] \div 4),
           B64Char((bytes[1] % 4) * 16 + bytes[2] \div 16),
           B64Char((bytes[2] % 16) * 4), "=">>
    ELSE <<B64Char(bytes[1] \div 4),
           B64Char((bytes[1] % 4) * 16 + bytes[2] \div 16),
           B64Char((bytes[2] % 16) * 4 + bytes[3] \div 64),
           B64Char(bytes[3] % 64)>>
         \o b64encode(SubSeq(bytes, 4, Len(bytes)))

Encoded(chars) == [i \in 1..Len(chars) |-> Ord(chars[i])]

\* the texts typed into the credential boxes
UserTexts == {<< >>, <<"a", "l">>}
PasswordTexts == {<< >>, <<"x">>}
TokenTexts == {<< >>, <<"t", ".", "k">>}

NoCredentials == [username |-> << >>, password |-> << >>, app_username |-> << >>,
                  app_password |-> << >>, jwt_token |-> << >>]

\* lines 85-92: the boxes on the page for an auth type, and what they hold
CredentialsFor(auth) ==
    CASE auth = "Basic Auth" ->
             {[NoCredentials EXCEPT !.username = u, !.password = pw] :
                  u \in UserTexts, pw \in PasswordTexts}
      [] auth = "Application Password" ->
             {[NoCredentials EXCEPT !.app_username = u, !.app_password = pw] :
                  u \in UserTexts, pw \in PasswordTexts}
      [] auth = "JWT Token" ->
             {[NoCredentials EXCEPT !.jwt_token = t] : t \in TokenTexts}
      [] OTHER -> {NoCredentials}

\* every box on the page filled in
FilledCredentials(auth) ==
    CHOOSE c \in CredentialsFor(auth) :
        \A d \in CredentialsFor(auth) :
            /\ Len(d.username) <= Len(c.username)
            /\ Len(d.password) <= Len(c.password)
            /\ Len(d.app_username) <= Len(c.app_username)
            /\ Len(d.app_password) <= Len(c.app_password)
            /\ Len(d.jwt_token) <= Len(c.jwt_token)

\* lines 791-797
AuthConfig(auth, creds) ==
    CASE auth = "Basic Auth" ->
             [type |-> auth, keys |-> {"type", "username", "password"},
              username |-> creds.username, password |-> creds.password,
              token |-> << >>]
      [] auth = "Application Password" ->
             [type |-> auth, keys |-> {"type", "username", "password"},
              username |-> creds.app_username, password |-> creds.app_password,
              token |-> << >>]
      [] auth = "JWT Token" ->
             [type |-> auth, keys |-> {"type", "token"},
              username |-> << >>, password |-> << >>, token |-> creds.jwt_token]
      [] OTHER ->
             [type |-> auth, keys |-> {"type"},
              username |-> << >>, password |-> << >>, token |-> << >>]

\* auth_config.get(key, '')
ConfigGet(config, key, value) == IF key \in config.keys THEN value ELSE << >>

\* requests.Session() as the fetch leaves it before the first request: the
\* credentials set on it (set = FALSE: none) and the headers the fetch has
\* put on it.  The headers the library sets on every session are not part
\* of the model.
NoAuth == [set |-> FALSE, username |-> << >>, password |-> << >>]
NoSession == [open |-> FALSE, auth |-> NoAuth, headers |-> << >>]

\* f"{username}:{password}"
Credentials(config) ==
    ConfigGet(config, "username", config.username) \o <<":">>
    \o ConfigGet(config, "password", config.password)

\* variant of SetUpSession that handles an application password the way it
\* handles Basic Auth
SetUpSessionAuthOnly(config, hdrs) ==
    [open |-> TRUE,
     auth |-> IF config.type \in {"Basic Auth", "Application Password"}
              THEN [set |-> TRUE,
                    username |-> ConfigGet(config, "username", config.username),
                    password |-> ConfigGet(config, "password", config.password)]
              ELSE NoAuth,
     headers |-> IF config.type = "JWT Token"
                 THEN ("Authorization" :>
                           "Bearer " \o Text(ConfigGet(config, "token", config.token)))
                      @@ hdrs
                 ELSE hdrs]

\* lines 195-208
SetUpSession(config, hdrs) ==
    [open |-> TRUE,
     auth |-> IF config.type = "Basic Auth"
              THEN [set |-> TRUE,
                    username |-> ConfigGet(config, "username", config.username),
                    password |-> ConfigGet(config, "password", config.password)]
              ELSE NoAuth,
     headers |-> CASE config.type = "Application Password" ->
                          ("Authorization" :>
                               "Basic " \o Text(b64encode(Encoded(Credentials(config)))))
                          @@ hdrs
                   [] config.type = "JWT Token" ->
                          ("Authorization" :>
                               "Bearer " \o Text(ConfigGet(config, "token", config.token)))
                          @@ hdrs
                   [] OTHER -> hdrs]

\* texts of the custom-headers box: empty, a JSON object, and two texts that
\* are not JSON (a stray word; an object that is not closed).  Texts that
\* are JSON but no object of strings are not among them.
HeaderTexts == {"", "{\"X-Custom-Header\": \"value\"}", "{oops",
                "{\"X-Custom-Header\": \"value\""}

DefaultHeaders == ("Content-Type" :> "application/json") @@
                  ("User-Agent" :> "WordPress-CPT-Generator/1.0")

\* the tokens the JSON scanner finds in the texts above; a token of kind
\* "error" is a place where no JSON token starts
Lex(text) ==
    CASE text = "" -> << >>
      [] text = "{\"X-Custom-Header\": \"value\"}" ->
             <<Punct("{"), StrTok("X-Custom-Header"), Punct(":"), StrTok("value"),
               Punct("}")>>
      [] text = "{oops" -> <<Punct("{"), [k |-> "error", s |-> "oops", n |-> 0]>>
      [] text = "{\"X-Custom-Header\": \"value\"" ->
             <<Punct("{"), StrTok("X-Custom-Header"), Punct(":"), StrTok("value")>>

\* a decoded object of strings as a dict
ObjectDict(obj) ==
    [key \in {obj.v[i].k : i \in 1..Len(obj.v)} |->
         (CHOOSE m \in {obj.v[i] : i \in 1..Len(obj.v)} : m.k = key).v.v]

\* json.loads on the text of the box: ok = FALSE stands for
\* json.JSONDecodeError
JsonLoads(text) ==
    LET r == Decode(Lex(text))
    IN [ok |-> r.ok, value |-> IF r.ok THEN ObjectDict(r.val) ELSE << >>]

\* variant of PrepareHeaders that sends a text it cannot decode as a header
PrepareHeadersRaw(text) ==
    IF text = "" THEN DefaultHeaders
    ELSE IF JsonLoads(text).ok
    THEN JsonLoads(text).value @@ DefaultHeaders
    ELSE ("X-Custom-Header" :> text) @@ DefaultHeaders

\* lines 800-806: the headers handed to the fetch
PrepareHeaders(text) ==
    IF text # "" /\ JsonLoads(text).ok
    THEN JsonLoads(text).value @@ DefaultHeaders
    ELSE DefaultHeaders

\* st.cache_data(ttl=300): seconds an entry stays valid
CacheTtl == 300

\* line 99: default of the "Request Timeout" slider
DefaultTimeout == 100

\* ------------------------------------------------------------------------
\* What one session.get can end in: a response with a status code, or an
\* exception, named by the except clause that catches it (the clauses are
\* tried in order: Timeout, ConnectionError, RequestException).  A 200
\* response carries the decoded JSON body.
\* ------------------------------------------------------------------------
Statuses == {200, 401, 403, 404, 500, 503}
Exceptions == {"Timeout", "ConnectionError", "RequestException"}
Outcomes == {[kind |-> "response", status |-> 200, body |-> b] : b \in Bodies}
            \cup {[kind |-> "response", status |-> c, body |-> NoBody] :
                      c \in Statuses \ {200}}
            \cup {[kind |-> e, status |-> 0, body |-> NoBody] : e \in Exceptions}

NoneResult == [ok |-> FALSE, data |-> NoBody, status_code |-> 0]
Success(body) == [ok |-> TRUE, data |-> body, status_code |-> 200]

VARIABLES
    api_url,              \* text of the URL box
    auto_detect,          \* the "Auto-detect" checkbox
    auth_type,            \* the authentication selectbox
    username,             \* the boxes of Basic Auth
    password,
    app_username,         \* the boxes of Application Password
    app_password,
    jwt_token,            \* the box of JWT Token
    max_retries,          \* the "Max Retries" slider
    custom_headers_text,  \* text of the custom-headers box
    timeout_duration,     \* the "Request Timeout" slider
    pc,                   \* "idle", "fetching" (inside the retry loop), "done"
    url,                  \* the URL in effect, as passed to the fetch
    headers,              \* the headers passed to the fetch
    session,              \* the requests.Session of the fetch
    attempt,              \* loop variable of the retry loop
    log,                  \* outcome of every session.get issued, in order
    slept,                \* argument of every time.sleep, in order
    result,               \* what fetch_cpts_advanced returned
    messages,             \* st.error / st.warning / st.info shown, in order
    halt,                 \* how the script run ended
    stages,               \* stages of the pipeline that have completed
    analysis,             \* the analysis summary
    cache,                \* entries memoized by st.cache_data
    now,                  \* wall clock, seconds
    runs,                 \* button presses so far
    export_format,        \* the export selectbox
    step,                 \* position in the rendering of a fetched catalog
    cpt_index,            \* position of the CRUD loop in the catalog
    supports,             \* the supports list of the CPT being rendered
    field_mapping,        \* its field mapping
    post_body,            \* its POST body
    post_request,         \* its templates
    put_request,
    delete_soft,
    delete_hard,
    workflows,            \* its n8n workflow documents
    export_data           \* the text of the export

credentials == <<username, password, app_username, app_password, jwt_token>>
widgets == <<api_url, auto_detect, auth_type, credentials, max_retries,
             custom_headers_text, timeout_duration>>
run == <<pc, url, headers, session, attempt, log, slept, result, messages, halt, stages,
         analysis>>

templates == <<post_body, post_request, put_request, delete_soft, delete_hard,
               workflows>>
rendered == <<export_format, cpt_index, supports, field_mapping, templates,
              export_data>>
render == <<step, rendered>>
vars == <<widgets, run, cache, now, runs, render>>

\* the texts of the credential boxes
Creds == [username |-> username, password |-> password, app_username |-> app_username,
          app_password |-> app_password, jwt_token |-> jwt_token]

\* lines 791-797
auth_config == AuthConfig(auth_type, Creds)

\* the credential boxes hold the texts c
Holds(c) ==
    /\ username = c.username
    /\ password = c.password
    /\ app_username = c.app_username
    /\ app_password = c.app_password
    /\ jwt_token = c.jwt_token

ExportFormats == {"JSON", "YAML", "Postman Collection", "Insomnia Collection"}
NoExport == [syntax |-> "", tokens |-> << >>]

\* nothing of a catalog has been rendered
RenderIdle ==
    /\ step = "none"
    /\ cpt_index = 0
    /\ supports = << >>
    /\ field_mapping = << >>
    /\ post_body = << >>
    /\ post_request = NoRequest
    /\ put_request = NoRequest
    /\ delete_soft = NoRequest
    /\ delete_hard = NoRequest
    /\ workflows = NoWorkflows
    /\ export_data = NoExport

Init ==
    /\ api_url \in Urls
    /\ auto_detect \in BOOLEAN
    /\ auth_type \in AuthTypes
    /\ Holds(FilledCredentials(auth_type))
    /\ max_retries \in 1..MaxRetries
    /\ custom_headers_text \in HeaderTexts
    /\ timeout_duration = DefaultTimeout
    /\ export_format = "JSON"
    /\ RenderIdle
    /\ runs = 0
    /\ pc = "idle"
    /\ url = << >>
    /\ headers = DefaultHeaders
    /\ session = NoSession
    /\ attempt = 0
    /\ log = << >>
    /\ slept = << >>
    /\ result = NoneResult
    /\ messages = << >>
    /\ halt = ""
    /\ stages = {}
    /\ analysis = NoAnalysis
    /\ cache = {}
    /\ now = 0

\* ------------------------------------------------------------------------
\* Main execution after the fetch has returned (lines 811-1317)
\* ------------------------------------------------------------------------
AllStages == {"analyze", "render", "export"}

\* variant of AfterFetch without the stop of line 811
AfterFetchGoesOn(res) ==
    IF ~res.ok \/ ~Truthy(res.data)
    THEN [messages |-> <<"no_cpts_found">>, halt |-> "complete",
          stages |-> AllStages, analysis |-> NoAnalysis]
    ELSE IF analyze_cpt_structure(res.data).raised
    THEN [messages |-> <<"success_banner">>, halt |-> "exception",
          stages |-> {}, analysis |-> NoAnalysis]
    ELSE [messages |-> <<"success_banner">>, halt |-> "complete",
          stages |-> AllStages, analysis |-> analyze_cpt_structure(res.data)]

AfterFetch(res) ==
    IF ~res.ok
    THEN \* line 811: if not result: st.stop()
         [messages |-> << >>, halt |-> "fetch_failed",
          stages |-> {}, analysis |-> NoAnalysis]
    ELSE IF ~Truthy(res.data)
    THEN \* line 817: if not cpt_data: warning, st.stop()
         [messages |-> <<"no_cpts_found">>, halt |-> "empty_catalog",
          stages |-> {}, analysis |-> NoAnalysis]
    ELSE IF analyze_cpt_structure(res.data).raised
    THEN \* line 830 raises, the script run dies with the exception
         [messages |-> <<"success_banner">>, halt |-> "exception",
          stages |-> {}, analysis |-> NoAnalysis]
    ELSE \* the tabs are rendered and the export is encoded
         [messages |-> <<"success_banner">>, halt |-> "complete",
          stages |-> AllStages, analysis |-> analyze_cpt_structure(res.data)]

\* the fetch returns res to line 809.  With step = "none" the rest of the
\* script run is one step of the model, to its end; with step = "ready" the
\* rendering of a catalog is followed stage by stage from line 830 on.
Return(res, shown) ==
    /\ result' = res
    /\ messages' = messages \o shown \o AfterFetch(res).messages
    /\ IF step = "ready" /\ AfterFetch(res).halt = "complete"
       THEN /\ pc' = "rendering"
            /\ step' = "analyze"
            /\ halt' = ""
            /\ stages' = {}
            /\ analysis' = NoAnalysis
       ELSE /\ pc' = "done"
            /\ halt' = AfterFetch(res).halt
            /\ stages' = AfterFetch(res).stages
            /\ analysis' = AfterFetch(res).analysis
            /\ UNCHANGED step

\* ------------------------------------------------------------------------
\* st.cache_data (line 190): the key is the tuple of the call's arguments
\* ------------------------------------------------------------------------
CacheKey(u, auth, hdrs, timeout, retries) ==
    [url |-> u, auth_config |-> auth, headers |-> hdrs, timeout |-> timeout,
     retries |-> retries]

\* variant of CacheHits in which entries never expire
CacheHitsForever(key) == {e \in cache : e.key = key}

CacheHits(key) == {e \in cache : e.key = key /\ now - e.at < CacheTtl}

\* variant of CacheStore that memoizes success records only
CacheStoreSuccesses(key, res) ==
    IF res.ok
    THEN {e \in cache : e.key # key} \cup {[key |-> key, result |-> res, at |-> now]}
    ELSE cache

CacheStore(key, res) ==
    {e \in cache : e.key # key} \cup {[key |-> key, result |-> res, at |-> now]}

\* ------------------------------------------------------------------------
\* The button is pressed: the script runs from the top (lines 175-187),
\* enters the button branch (lines 785-809) and calls the memoized fetch
\* ------------------------------------------------------------------------
\* variant of InvalidUrl that only asks for some scheme
InvalidUrlAnyScheme(u) == u # << >> /\ UrlParse(u).scheme = << >>

\* line 185: a non-empty URL that does not start with "http"
InvalidUrl(u) == u # << >> /\ ~StartsWith(u, HttpPrefix)

Click ==
    /\ pc = "idle"
    /\ LET u == AutoDetect(api_url, auto_detect)
           info == IF u # api_url THEN <<"auto_detected">> ELSE << >>
           hdrs == PrepareHeaders(custom_headers_text)
           warn == IF custom_headers_text # "" /\ ~JsonLoads(custom_headers_text).ok
                   THEN <<"invalid_headers_json">> ELSE << >>
           key == CacheKey(u, auth_config, hdrs, timeout_duration, max_retries)
       IN /\ url' = u
          /\ IF InvalidUrl(u)
             THEN \* lines 185-187
                  /\ messages' = messages \o info \o <<"invalid_url">>
                  /\ halt' = "invalid_url"
                  /\ pc' = "done"
                  /\ UNCHANGED <<headers, session, attempt, result, stages, analysis,
                                 step>>
             ELSE IF u = << >>
             THEN \* lines 786-788
                  /\ messages' = messages \o info \o <<"enter_url">>
                  /\ halt' = "missing_url"
                  /\ pc' = "done"
                  /\ UNCHANGED <<headers, session, attempt, result, stages, analysis,
                                 step>>
             ELSE /\ headers' = hdrs
                  /\ IF CacheHits(key) # {}
                     THEN /\ Return((CHOOSE e \in CacheHits(key) : TRUE).result,
                                    info \o warn)
                          /\ UNCHANGED <<session, attempt>>
                     ELSE \* the function body runs: lines 195-208, then
                          \* for attempt in range(retries)
                          /\ session' = SetUpSession(auth_config, hdrs)
                          /\ attempt' = 0
                          /\ pc' = "fetching"
                          /\ messages' = messages \o info \o warn
                          /\ UNCHANGED <<result, halt, stages, analysis, step>>
    /\ runs' = runs + 1
    /\ UNCHANGED <<widgets, log, slept, cache, now, rendered>>

\* ------------------------------------------------------------------------
\* One iteration of the retry loop (lines 210-246): session.get ends in
\* outcome o
\* ------------------------------------------------------------------------
\* variants of Terminal with one kind of outcome handled the other way
TerminalTimeoutAborts(o) ==
    \/ o.kind = "response" /\ o.status \in {200, 401, 403, 404}
    \/ o.kind \in {"ConnectionError", "Timeout"}

TerminalNotFoundRetried(o) ==
    \/ o.kind = "response" /\ o.status \in {200, 401, 403}
    \/ o.kind = "ConnectionError"

TerminalConnectionRetried(o) ==
    o.kind = "response" /\ o.status \in {200, 401, 403, 404}

TerminalOtherHttpAborts(o) ==
    \/ o.kind = "response"
    \/ o.kind = "ConnectionError"

TerminalForbiddenRetried(o) ==
    \/ o.kind = "response" /\ o.status \in {200, 401, 404}
    \/ o.kind = "ConnectionError"

Terminal(o) == \/ o.kind = "response" /\ o.status \in {200, 401, 403, 404}
               \/ o.kind = "ConnectionError"

Shown(o) ==
    IF o.kind = "response"
    THEN CASE o.status = 200 -> << >>
           [] o.status = 401 -> <<"auth_failed">>
           [] o.status = 403 -> <<"forbidden">>
           [] o.status = 404 -> <<"not_found">>
           [] OTHER -> <<"http_warning">>
    ELSE CASE o.kind = "Timeout" -> <<"timeout_warning">>
           [] o.kind = "ConnectionError" -> <<"connection_error">>
           [] OTHER -> <<"request_error">>

\* variant of RetriesLeft that lets the loop run one iteration too many
RetriesLeftOneMore(a, retries) == a < retries

\* line 242: another iteration follows, after the backoff sleep
RetriesLeft(a, retries) == a < retries - 1

\* variant of Backoff with the fixed pause of two seconds
BackoffFixed(a) == 2

\* line 243: the argument of time.sleep after the attempt with index a
Backoff(a) == 2 ^ a

Attempt(o) ==
    /\ pc = "fetching"
    /\ log' = Append(log, o)
    /\ LET key == CacheKey(url, auth_config, headers, timeout_duration, max_retries)
           res == IF o.kind = "response" /\ o.status = 200
                  THEN Success(o.body) ELSE NoneResult
       IN IF Terminal(o)
          THEN \* a return inside the loop
               /\ Return(res, Shown(o))
               /\ cache' = CacheStore(key, res)
               /\ UNCHANGED <<attempt, slept>>
          ELSE IF RetriesLeft(attempt, max_retries)
          THEN \* lines 242-243, then the next iteration
               /\ slept' = Append(slept, Backoff(attempt))
               /\ attempt' = attempt + 1
               /\ messages' = messages \o Shown(o)
               /\ UNCHANGED <<pc, result, halt, stages, analysis, cache, step>>
          ELSE \* the loop is over: lines 245-246
               /\ Return(NoneResult, Shown(o) \o <<"all_failed">>)
               /\ cache' = CacheStore(key, NoneResult)
               /\ UNCHANGED <<attempt, slept>>
    /\ UNCHANGED <<widgets, url, headers, session, now, runs, rendered>>

Fetching == \E o \in Outcomes : Attempt(o)

Next ==
    \/ Click
    \/ Fetching

Spec == Init /\ [][Next]_vars

\* ------------------------------------------------------------------------
\* A session with several button presses.  Between two presses the user may
\* change widgets (the script reruns and the previous output is gone), and
\* the clock advances.  The configurations are the default one and those
\* that differ from it in one argument of the fetch.
\* ------------------------------------------------------------------------
Config(u, auto, auth, creds, retries, text, timeout) ==
    [api_url |-> u, auto_detect |-> auto, auth_type |-> auth, credentials |-> creds,
     max_retries |-> retries, custom_headers_text |-> text,
     timeout_duration |-> timeout]

ConfigDefault == Config(UrlTypes, FALSE, "None", NoCredentials, 2, "", DefaultTimeout)
SessionConfigs ==
    {ConfigDefault,
     Config(UrlHome, FALSE, "None", NoCredentials, 2, "", DefaultTimeout),
     Config(UrlTypes, FALSE, "None", NoCredentials, 1, "", DefaultTimeout),
     Config(UrlTypes, FALSE, "None", NoCredentials, 2,
            "{\"X-Custom-Header\": \"value\"}", DefaultTimeout),
     Config(UrlTypes, FALSE, "None", NoCredentials, 2, "", 30)}
    \cup {Config(UrlTypes, FALSE, "JWT Token", c, 2, "", DefaultTimeout) :
              c \in CredentialsFor("JWT Token")}

SetWidgets(c) ==
    /\ api_url' = c.api_url
    /\ auto_detect' = c.auto_detect
    /\ auth_type' = c.auth_type
    /\ username' = c.credentials.username
    /\ password' = c.credentials.password
    /\ app_username' = c.credentials.app_username
    /\ app_password' = c.credentials.app_password
    /\ jwt_token' = c.credentials.jwt_token
    /\ max_retries' = c.max_retries
    /\ custom_headers_text' = c.custom_headers_text
    /\ timeout_duration' = c.timeout_duration

\* the script reruns without the button: the output of the last run is gone
Reconfigure(c) ==
    /\ pc = "done"
    /\ runs < MaxRuns
    /\ SetWidgets(c)
    /\ pc' = "idle"
    /\ url' = << >>
    /\ headers' = DefaultHeaders
    /\ session' = NoSession
    /\ attempt' = 0
    /\ log' = << >>
    /\ slept' = << >>
    /\ result' = NoneResult
    /\ messages' = << >>
    /\ halt' = ""
    /\ stages' = {}
    /\ analysis' = NoAnalysis
    /\ UNCHANGED <<cache, now, runs, render>>

Tick ==
    /\ now < MaxTicks * (CacheTtl \div 2)
    /\ now' = now + (CacheTtl \div 2)
    /\ UNCHANGED <<widgets, run, cache, runs, render>>

\* what the server does in the session
SessionOutcomes ==
    {o \in Outcomes :
         \/ o.kind = "Timeout"
         \/ o.kind = "response" /\ o.status = 404
         \/ o.kind = "response" /\ o.status = 200
               /\ o.body = [kind |-> "dict",
                            items |-> <<[slug |-> "book", details |-> DBook]>>]}

SessionFetching == \E o \in SessionOutcomes : Attempt(o)
Reconfiguring == \E c \in SessionConfigs : Reconfigure(c)

SessionInit ==
    /\ Init
    /\ \E c \in SessionConfigs :
           /\ api_url = c.api_url
           /\ auto_detect = c.auto_detect
           /\ auth_type = c.auth_type
           /\ Holds(c.credentials)
           /\ max_retries = c.max_retries
           /\ custom_headers_text = c.custom_headers_text

SessionNext ==
    \/ Click
    \/ SessionFetching
    \/ Reconfiguring
    \/ Tick

SessionSpec == SessionInit /\ [][SessionNext]_vars

\* ------------------------------------------------------------------------
\* One press of the button on a usable URL, for every auth type and every
\* text of its credential boxes
\* ------------------------------------------------------------------------
AuthInit ==
    /\ api_url \in {UrlTypes, UrlHome}
    /\ auto_detect \in BOOLEAN
    /\ auth_type \in AuthTypes
    /\ \E c \in CredentialsFor(auth_type) : Holds(c)
    /\ max_retries \in 1..MaxRetries
    /\ custom_headers_text \in HeaderTexts
    /\ timeout_duration = DefaultTimeout
    /\ export_format = "JSON"
    /\ RenderIdle
    /\ runs = 0
    /\ pc = "idle"
    /\ url = << >>
    /\ headers = DefaultHeaders
    /\ session = NoSession
    /\ attempt = 0
    /\ log = << >>
    /\ slept = << >>
    /\ result = NoneResult
    /\ messages = << >>
    /\ halt = ""
    /\ stages = {}
    /\ analysis = NoAnalysis
    /\ cache = {}
    /\ now = 0

AuthNext ==
    \/ Click
    \/ SessionFetching

AuthSpec == AuthInit /\ [][AuthNext]_vars

\* ------------------------------------------------------------------------
\* The rendering of a fetched catalog, step by step: lines 830-1229 of the
\* main execution, entered with a non-empty catalog whose values are CPT
\* records.
\* ------------------------------------------------------------------------
cpt_data == result.data

SupportTags == {"title", "editor", "excerpt", "author", "thumbnail", "comments",
                "page-attributes", "custom-fields"}

RECURSIVE SupportsOfLen(_)
SupportsOfLen(n) ==
    IF n = 0 THEN {<< >>}
    ELSE {Append(l, t) : l \in SupportsOfLen(n - 1), t \in SupportTags}

SupportsLists == UNION {SupportsOfLen(n) : n \in 0..MaxSupports}

Record(keys, public, hierarchical, list) ==
    [kind |-> "dict", keys |-> keys, public |-> public,
     hierarchical |-> hierarchical, supports |-> list]

\* CPT records: every combination of flags (true, false, absent), and every
\* supports list.  The field of a key that the record does not hold has no
\* meaning; it is TRUE here.
FlagRecords ==
    {r \in {Record(keys, p, h, << >>) :
                keys \in SUBSET {"public", "hierarchical"},
                p \in BOOLEAN, h \in BOOLEAN} :
         /\ "public" \notin r.keys => r.public
         /\ "hierarchical" \notin r.keys => r.hierarchical}
SupportsRecords ==
    {Record({"name", "rest_base", "supports", "public"}, TRUE, FALSE, l) :
         l \in SupportsLists}

RECURSIVE CatalogsOfLen(_)
CatalogsOfLen(n) ==
    IF n = 0 THEN {<< >>}
    ELSE {Append(it, [slug |-> Slugs[n], details |-> d]) :
              it \in CatalogsOfLen(n - 1), d \in FlagRecords}

RenderCatalogs ==
    {[kind |-> "dict", items |-> it] :
         it \in UNION {CatalogsOfLen(n) : n \in 1..MaxCpts}}
    \cup {[kind |-> "dict", items |-> <<[slug |-> sl, details |-> d]>>] :
              sl \in {"book", "event"}, d \in SupportsRecords}
    \cup {[kind |-> "dict",
            items |-> <<[slug |-> "book", details |-> DBook],
                        [slug |-> "event", details |-> d]>>] :
              d \in {r \in SupportsRecords : Len(r.supports) = 1}}

RenderInit ==
    /\ api_url \in {UrlTypes, UrlHome}
    /\ auto_detect = FALSE
    /\ auth_type = "None"
    /\ Holds(NoCredentials)
    /\ max_retries = 1
    /\ custom_headers_text = ""
    /\ timeout_duration = DefaultTimeout
    /\ export_format \in ExportFormats
    /\ pc = "rendering"
    /\ url = api_url
    /\ headers = DefaultHeaders
    /\ session = SetUpSession(auth_config, headers)
    /\ attempt = 0
    /\ \E body \in RenderCatalogs :
           /\ log = <<[kind |-> "response", status |-> 200, body |-> body]>>
           /\ result = Success(body)
           /\ cache = {[key |-> CacheKey(url, auth_config, headers, timeout_duration,
                                         max_retries),
                        result |-> Success(body), at |-> 0]}
    /\ slept = << >>
    /\ messages = <<"success_banner">>
    /\ halt = ""
    /\ stages = {}
    /\ analysis = NoAnalysis
    /\ now = 0
    /\ runs = 1
    /\ step = "analyze"
    /\ cpt_index = 0
    /\ supports = << >>
    /\ field_mapping = << >>
    /\ post_body = << >>
    /\ post_request = NoRequest
    /\ put_request = NoRequest
    /\ delete_soft = NoRequest
    /\ delete_hard = NoRequest
    /\ workflows = NoWorkflows
    /\ export_data = NoExport

\* line 830
Analyze ==
    /\ step = "analyze"
    /\ analysis' = analyze_cpt_structure(cpt_data)
    /\ stages' = stages \cup {"analyze"}
    /\ cpt_index' = 1
    /\ step' = "fields"
    /\ UNCHANGED <<widgets, pc, url, headers, session, attempt, log,
                   slept, result, messages,
                   halt, cache, now, runs, export_format, supports, field_mapping,
                   templates, export_data>>

\* variant of GenerateFields in which the field generator pops the tags off
\* the list it is given, which is the list the catalog holds
GenerateFieldsConsuming ==
    /\ step = "fields"
    /\ LET details == cpt_data.items[cpt_index].details
           list == Get(details, "supports", details.supports, << >>)
       IN /\ supports' = << >>
          /\ result' = [result EXCEPT !.data.items[cpt_index].details.supports = << >>]
          /\ field_mapping' =
                 generate_field_mapping(cpt_data.items[cpt_index].slug, list)
    /\ step' = "templates"
    /\ UNCHANGED <<widgets, pc, url, headers, session, attempt, log,
                   slept, messages, halt,
                   stages, analysis, cache, now, runs, export_format, cpt_index,
                   templates, export_data>>

\* lines 875-879: the loop reaches the next CPT
GenerateFields ==
    /\ step = "fields"
    /\ LET details == cpt_data.items[cpt_index].details
           list == Get(details, "supports", details.supports, << >>)
       IN /\ supports' = list
          /\ field_mapping' =
                 generate_field_mapping(cpt_data.items[cpt_index].slug, list)
    /\ step' = "templates"
    /\ UNCHANGED <<widgets, run, cache, now, runs, export_format, cpt_index,
                   templates, export_data>>

\* lines 986-1065, then the next iteration or the end of the loop
BuildTemplates ==
    /\ step = "templates"
    /\ LET endpoint == Endpoint(BaseUrl(api_url), cpt_data.items[cpt_index].slug)
           body == BuildPostBody(field_mapping, 1, << >>)
       IN /\ post_body' = body
          /\ post_request' = PostRequest(endpoint, body)
          /\ put_request' = PutRequest(endpoint, body)
          /\ delete_soft' = DeleteSoft(endpoint)
          /\ delete_hard' = DeleteHard(endpoint)
    /\ IF cpt_index < Len(cpt_data.items)
       THEN cpt_index' = cpt_index + 1 /\ step' = "fields" /\ UNCHANGED stages
       ELSE /\ step' = "export"
            /\ stages' = stages \cup {"render"}
            /\ UNCHANGED cpt_index
    /\ UNCHANGED <<widgets, pc, url, headers, session, attempt, log,
                   slept, result, messages,
                   halt, analysis, cache, now, runs, export_format, supports,
                   field_mapping, workflows, export_data>>

\* line 1211; a later run of the script encodes the export again
Export ==
    /\ step \in {"export", "exported"}
    /\ export_data' = generate_export_data(cpt_data, analysis, export_format, now)
    /\ stages' = stages \cup {"export"}
    /\ step' = "exported"
    /\ UNCHANGED <<widgets, pc, url, headers, session, attempt, log,
                   slept, result, messages,
                   halt, analysis, cache, now, runs, export_format, cpt_index,
                   supports, field_mapping, templates>>

RenderNext ==
    \/ Analyze
    \/ GenerateFields
    \/ BuildTemplates
    \/ Export
    \/ Tick

RenderSpec == RenderInit /\ [][RenderNext]_vars

\* ------------------------------------------------------------------------
\* The workflow tab (lines 1088-1100): the rendering has reached the tab and
\* its loop goes through the catalog, one CPT a step
\* ------------------------------------------------------------------------
WorkflowInit ==
    /\ api_url \in {UrlTypes, UrlHome}
    /\ auto_detect = FALSE
    /\ auth_type = "None"
    /\ Holds(NoCredentials)
    /\ max_retries = 1
    /\ custom_headers_text = ""
    /\ timeout_duration = DefaultTimeout
    /\ export_format = "JSON"
    /\ pc = "rendering"
    /\ url = api_url
    /\ headers = DefaultHeaders
    /\ session = SetUpSession(auth_config, headers)
    /\ attempt = 0
    /\ \E body \in RenderCatalogs :
           /\ log = <<[kind |-> "response", status |-> 200, body |-> body]>>
           /\ result = Success(body)
           /\ analysis = analyze_cpt_structure(body)
           /\ cache = {[key |-> CacheKey(url, auth_config, headers, timeout_duration,
                                         max_retries),
                        result |-> Success(body), at |-> 0]}
    /\ slept = << >>
    /\ messages = <<"success_banner">>
    /\ halt = ""
    /\ stages = {"analyze"}
    /\ now = 0
    /\ runs = 1
    /\ step = "workflows"
    /\ cpt_index = 1
    /\ supports = << >>
    /\ field_mapping = << >>
    /\ post_body = << >>
    /\ post_request = NoRequest
    /\ put_request = NoRequest
    /\ delete_soft = NoRequest
    /\ delete_hard = NoRequest
    /\ workflows = NoWorkflows
    /\ export_data = NoExport

\* lines 1091-1096, then the next iteration or the end of the loop
BuildWorkflows ==
    /\ step = "workflows"
    /\ LET cpt_slug == cpt_data.items[cpt_index].slug
           details == cpt_data.items[cpt_index].details
           endpoint == Endpoint(BaseUrl(api_url), cpt_slug)
           list == Get(details, "supports", details.supports, << >>)
       IN /\ supports' = list
          /\ field_mapping' = generate_field_mapping(cpt_slug, list)
          /\ workflows' = generate_n8n_workflows(cpt_slug, endpoint,
                                                 generate_field_mapping(cpt_slug, list))
    /\ IF cpt_index < Len(cpt_data.items)
       THEN cpt_index' = cpt_index + 1 /\ UNCHANGED step
       ELSE step' = "workflows_done" /\ UNCHANGED cpt_index
    /\ UNCHANGED <<widgets, run, cache, now, runs, export_format, post_body,
                   post_request, put_request, delete_soft, delete_hard, export_data>>

WorkflowNext == BuildWorkflows

WorkflowSpec == WorkflowInit /\ [][WorkflowNext]_vars

\* ------------------------------------------------------------------------
\* One press of the button followed from the URL check to the export: the
\* fetch, and after a fetch that lets the script go on, the rendering stage
\* by stage
\* ------------------------------------------------------------------------
PipelineInit ==
    /\ api_url \in Urls
    /\ auto_detect \in BOOLEAN
    /\ auth_type = "None"
    /\ Holds(NoCredentials)
    /\ max_retries \in 1..MaxRetries
    /\ custom_headers_text = ""
    /\ timeout_duration = DefaultTimeout
    /\ export_format \in ExportFormats
    /\ step = "ready"
    /\ cpt_index = 0
    /\ supports = << >>
    /\ field_mapping = << >>
    /\ post_body = << >>
    /\ post_request = NoRequest
    /\ put_request = NoRequest
    /\ delete_soft = NoRequest
    /\ delete_hard = NoRequest
    /\ workflows = NoWorkflows
    /\ export_data = NoExport
    /\ runs = 0
    /\ pc = "idle"
    /\ url = << >>
    /\ headers = DefaultHeaders
    /\ session = NoSession
    /\ attempt = 0
    /\ log = << >>
    /\ slept = << >>
    /\ result = NoneResult
    /\ messages = << >>
    /\ halt = ""
    /\ stages = {}
    /\ analysis = NoAnalysis
    /\ cache = {}
    /\ now = 0

PipelineNext ==
    \/ Click
    \/ Fetching
    \/ Analyze
    \/ GenerateFields
    \/ BuildTemplates
    \/ Export

PipelineSpec == PipelineInit /\ [][PipelineNext]_vars

\* ------------------------------------------------------------------------
\* Properties of the retry loop
\* ------------------------------------------------------------------------
IsTimeout(o) == o.kind = "Timeout"
IsStatus(o, c) == o.kind = "response" /\ o.status = c
IsOtherHttp(o) == o.kind = "response" /\ o.status \notin {200, 401, 403, 404}

\* the body of fetch_cpts_advanced has been entered
Started == pc = "fetching" \/ log # << >>

\* C1: when the first k < max_retries attempts time out the fetch is still
\* trying (it is about to issue attempt k+1), and when attempt k+1 then
\* answers 200 the fetch has returned the success record of that response
\* after exactly k+1 attempts.
C1_TimeoutsThenSuccess ==
    Started =>
      /\ ((\A i \in 1..Len(log) : IsTimeout(log[i])) /\ Len(log) < max_retries)
            => (pc = "fetching" /\ attempt = Len(log))
      /\ \A k \in 0..(max_retries - 1) :
            (/\ Len(log) > k
             /\ \A i \in 1..k : IsTimeout(log[i])
             /\ IsStatus(log[k + 1], 200))
            => (/\ pc = "done"
                /\ result = Success(log[k + 1].body)
                /\ Len(log) = k + 1)

\* two timeouts, then success on the third attempt of three
C1_Witness ==
    /\ max_retries = 3
    /\ Len(log) = 3
    /\ IsTimeout(log[1]) /\ IsTimeout(log[2]) /\ IsStatus(log[3], 200)
    /\ pc = "done"
    /\ result.ok

\* the error kind shown for each terminal status
ErrorKind(c) == CASE c = 401 -> "auth_failed"
                  [] c = 403 -> "forbidden"
                  [] c = 404 -> "not_found"

\* C2: an attempt answered with 401, 403 or 404 is the last attempt of the
\* fetch: the fetch has returned failure, no sleep follows the attempt, the
\* last message shown is the error kind of that status, and the error kinds
\* of the other two statuses are not shown.
C2_TerminalStatuses ==
    \A i \in 1..Len(log) : \A c \in {401, 403, 404} :
        IsStatus(log[i], c) =>
            /\ i = Len(log)
            /\ pc = "done"
            /\ result = NoneResult
            /\ halt = "fetch_failed"
            /\ Len(slept) = Len(log) - 1
            /\ messages[Len(messages)] = ErrorKind(c)
            /\ \A d \in {401, 403, 404} \ {c} :
                   \A m \in 1..Len(messages) : messages[m] # ErrorKind(d)

\* a 404 on the first attempt although retries remain
C2_Witness ==
    /\ max_retries = 3
    /\ Len(log) = 1
    /\ IsStatus(log[1], 404)
    /\ pc = "done"
    /\ messages[Len(messages)] = "not_found"

\* C3: an attempt that raised ConnectionError is the last attempt of the
\* fetch, however many retries remain, and the fetch has returned failure.
C3_ConnectionErrorAborts ==
    \A i \in 1..Len(log) :
        log[i].kind = "ConnectionError" =>
            /\ i = Len(log)
            /\ pc = "done"
            /\ result = NoneResult
            /\ halt = "fetch_failed"
            /\ Len(slept) = Len(log) - 1

\* a ConnectionError on the second attempt of three
C3_Witness ==
    /\ max_retries = 3
    /\ Len(log) = 2
    /\ log[2].kind = "ConnectionError"
    /\ pc = "done"

\* C4 as stated: whenever a further attempt was issued, the attempt before
\* it ended in a timeout or a generic network exception.
C4_RetryOnlyOnExceptions ==
    \A i \in 1..(Len(log) - 1) :
        log[i].kind \in {"Timeout", "RequestException"}

\* C4 amended: whenever a further attempt was issued, the attempt before it
\* ended in a timeout, a generic network exception, or an HTTP response
\* whose status is none of 200, 401, 403, 404.
C4_RetryOnlyOnRetryable ==
    \A i \in 1..(Len(log) - 1) :
        \/ log[i].kind \in {"Timeout", "RequestException"}
        \/ IsOtherHttp(log[i])

\* a second attempt issued after an HTTP 500
C4_Witness ==
    /\ Len(log) = 2
    /\ IsStatus(log[1], 500)
    /\ Len(slept) >= 1

\* C5: while every attempt so far was answered with a status other than
\* 200, 401, 403, 404, the fetch keeps attempting as long as fewer than
\* max_retries attempts were issued, and after max_retries such attempts it
\* has returned failure with the all-attempts-failed error.
C5_OtherHttpRetryableThenFatal ==
    (Len(log) >= 1 /\ \A i \in 1..Len(log) : IsOtherHttp(log[i])) =>
        IF Len(log) < max_retries
        THEN pc = "fetching" /\ attempt = Len(log) /\ Len(slept) = Len(log)
        ELSE /\ Len(log) = max_retries
             /\ pc = "done"
             /\ result = NoneResult
             /\ halt = "fetch_failed"
             /\ messages[Len(messages)] = "all_failed"

\* three attempts of three answered 500, 503, 500
C5_Witness ==
    /\ max_retries = 3
    /\ Len(log) = 3
    /\ \A i \in 1..3 : IsOtherHttp(log[i])
    /\ pc = "done"
    /\ ~result.ok

\* the retry loop makes progress: a started session.get returns or raises
\* within the timeout, so an enabled iteration eventually runs
LiveSpec == Spec /\ WF_vars(Fetching)

C6_Bounded ==
    /\ Len(log) <= max_retries
    /\ pc = "fetching" => (attempt = Len(log) /\ attempt < max_retries)
    /\ (pc = "done" /\ halt \notin {"invalid_url", "missing_url"}) =>
          /\ Len(log) >= 1
          /\ result.ok \/ result = NoneResult
          /\ result.ok = IsStatus(log[Len(log)], 200)
          /\ (\A i \in 1..Len(log) : IsTimeout(log[i])) =>
                (Len(log) = max_retries /\ result = NoneResult)

\* C6: a fetch that has started terminates; it issues at least 1 and at
\* most max_retries attempts and returns a success record or failure, and
\* when every attempt timed out it has issued exactly max_retries attempts
\* and returned failure.
C6_Terminates ==
    /\ []C6_Bounded
    /\ (pc = "fetching") ~> (pc = "done")

\* every one of three attempts timed out
C6_Witness ==
    /\ max_retries = 3
    /\ Len(log) = 3
    /\ \A i \in 1..3 : IsTimeout(log[i])
    /\ pc = "done"
    /\ result = NoneResult

\* ------------------------------------------------------------------------
\* Properties of the main execution
\* ------------------------------------------------------------------------
Clicked == pc # "idle"

\* C7: once the button was pressed with a URL in effect that is empty or
\* does not start with "http", the run has halted with the invalid-URL (or
\* enter-a-URL) error as its last message, and no request was issued:
\* nothing was fetched, memoized, analyzed, rendered or exported.
C7_InvalidUrlHalts ==
    (Clicked /\ (url = << >> \/ ~StartsWith(url, HttpPrefix))) =>
        /\ pc = "done"
        /\ halt = IF url = << >> THEN "missing_url" ELSE "invalid_url"
        /\ messages[Len(messages)] =
               IF url = << >> THEN "enter_url" ELSE "invalid_url"
        /\ log = << >>
        /\ cache = {}
        /\ result = NoneResult
        /\ stages = {}

\* "//a" with auto-detection on: the URL in effect is "://a/wp-json/wp/v2/types"
C7_Witness ==
    /\ Clicked
    /\ api_url = UrlNoScheme
    /\ auto_detect
    /\ url = SchemeSep \o <<"a">> \o TypesPath
    /\ halt = "invalid_url"
    /\ log = << >>

\* C8 as stated, on its example: a fetch that succeeded with a non-empty
\* list as body ends in the UnexpectedShape error state, with no stage
\* performed and no unhandled exception.
C8_UnexpectedShape ==
    (/\ pc = "done"
     /\ result.ok
     /\ result.data.kind # "dict"
     /\ result.data.items # << >>) =>
        /\ halt # "exception"
        /\ halt = "unexpected_shape"
        /\ stages = {}

\* C9 as stated: a fetched mapping holding a value that is not a mapping
\* never crashes the run; the valid entries are processed (the analysis
\* counts exactly them) and, when none remains, the empty state is shown.
ValidEntries(items) == {i \in 1..Len(items) : items[i].details.kind = "dict"}

C9_MalformedEntryDropped ==
    (/\ pc = "done"
     /\ result.ok
     /\ result.data.kind = "dict"
     /\ ValidEntries(result.data.items) # DOMAIN result.data.items) =>
        /\ halt # "exception"
        /\ IF ValidEntries(result.data.items) = {}
           THEN halt = "empty_catalog"
           ELSE /\ halt = "complete"
                /\ analysis.total_cpts = Cardinality(ValidEntries(result.data.items))

FetchFailureErrors ==
    {"auth_failed", "forbidden", "not_found", "connection_error", "all_failed"}

\* C10: a fetch that succeeded with a mapping of zero entries ends in the
\* empty state: the empty-state warning is the last message, no
\* fetch-failure error is shown, the run is not a failed fetch, and nothing
\* is analyzed, rendered or exported.
C10_EmptyCatalog ==
    (/\ pc = "done"
     /\ result.ok
     /\ result.data.kind = "dict"
     /\ result.data.items = << >>) =>
        /\ halt = "empty_catalog"
        /\ halt # "fetch_failed"
        /\ messages[Len(messages)] = "no_cpts_found"
        /\ \A m \in 1..Len(messages) : messages[m] \notin FetchFailureErrors
        /\ stages = {}
        /\ analysis = NoAnalysis

\* an empty mapping fetched on the second attempt, after a timeout
C10_Witness ==
    /\ pc = "done"
    /\ Len(log) = 2
    /\ IsTimeout(log[1])
    /\ IsStatus(log[2], 200)
    /\ log[2].body = [kind |-> "dict", items |-> << >>]
    /\ halt = "empty_catalog"

\* ------------------------------------------------------------------------
\* Properties of the memoization
\* ------------------------------------------------------------------------
UrlErrors == {"invalid_url", "missing_url"}

\* the unexpired entries whose key equals, component by component, the
\* arguments of the call made by the button press that is being taken
EntriesForCall ==
    {e \in cache : /\ e.key.url = url'
                   /\ e.key.auth_config = auth_config
                   /\ e.key.headers = headers'
                   /\ e.key.timeout = timeout_duration
                   /\ e.key.retries = max_retries
                   /\ now - e.at < CacheTtl}

C11_Press ==
    (Click /\ halt' \notin UrlErrors) =>
        IF EntriesForCall # {}
        THEN /\ pc' = "done"
             /\ log' = << >>
             /\ \A e \in EntriesForCall : result' = e.result
             /\ cache' = cache
        ELSE /\ pc' = "fetching"
             /\ log' = << >>
             /\ cache' = cache

\* a run that issued requests leaves its result memoized under its key
C11_Stored ==
    (pc = "done" /\ log # << >>) =>
        \E e \in cache :
            /\ e.key = CacheKey(url, auth_config, headers, timeout_duration, max_retries)
            /\ e.result = result
            /\ e.at <= now

\* C11: a button press whose arguments equal the key of an entry stored
\* less than 300 seconds ago issues no request and yields the stored result,
\* which is the result of the run that stored it; a press whose arguments
\* differ from every unexpired entry in some component, or that comes after
\* the entry expired, enters the retry loop to issue a new request.
C11_Memoized == []C11_Stored /\ [][C11_Press]_vars

\* a second press 150 seconds after the first, answered from the cache
C11_Witness ==
    /\ runs = 2
    /\ pc = "done"
    /\ log = << >>
    /\ result.ok
    /\ \E e \in cache : e.at < now /\ now - e.at < CacheTtl /\ e.result = result

\* ------------------------------------------------------------------------
\* Properties of the analysis and of the templates
\* ------------------------------------------------------------------------
Analyzed == step \notin {"none", "ready", "analyze"}

Members(list) == {list[i] : i \in 1..Len(list)}
NoDuplicates(list) == Cardinality(Members(list)) = Len(list)

\* the raw flag of a record: the key is held and its value is true
FlagSet(details, key, value) == key \in details.keys /\ value

\* C12: once a catalog of CPT records is analyzed, every slug is in exactly
\* one of public_cpts / private_cpts, in public_cpts iff its public flag is
\* true (so in private_cpts when it is false or absent), in
\* hierarchical_cpts iff its hierarchical flag is true, no list names a slug
\* twice or a slug that is not in the catalog, and total_cpts is the size of
\* the catalog and the sum of the sizes of the two lists.
C12_AnalysisPartition ==
    Analyzed =>
      /\ ~analysis.raised
      /\ \A i \in 1..Len(cpt_data.items) :
            LET slug == cpt_data.items[i].slug
                details == cpt_data.items[i].details
            IN /\ slug \in Members(analysis.public_cpts)
                     <=> FlagSet(details, "public", details.public)
               /\ slug \in Members(analysis.private_cpts)
                     <=> ~FlagSet(details, "public", details.public)
               /\ slug \in Members(analysis.hierarchical_cpts)
                     <=> FlagSet(details, "hierarchical", details.hierarchical)
      /\ Members(analysis.public_cpts) \cap Members(analysis.private_cpts) = {}
      /\ \A l \in {analysis.public_cpts, analysis.private_cpts,
                   analysis.hierarchical_cpts} :
            /\ NoDuplicates(l)
            /\ Members(l) \subseteq {cpt_data.items[i].slug : i \in 1..Len(cpt_data.items)}
      /\ analysis.total_cpts = Len(cpt_data.items)
      /\ analysis.total_cpts = Len(analysis.public_cpts) + Len(analysis.private_cpts)

\* two CPTs analyzed: one public, one without the public key and hierarchical
C12_Witness ==
    /\ Analyzed
    /\ Len(cpt_data.items) = 2
    /\ analysis.public_cpts = <<"book">>
    /\ analysis.private_cpts = <<"event">>
    /\ analysis.hierarchical_cpts = <<"event">>
    /\ "public" \notin cpt_data.items[2].details.keys

Generated == step \in {"templates", "export", "exported"} \/ (step = "fields" /\ cpt_index > 1)

BaseFieldNames == {"id", "date", "date_gmt", "guid", "modified", "modified_gmt",
                   "password", "slug", "status", "type", "link", "meta"}

\* the lists one step away from a list: one tag more, one tag less, reversed
RECURSIVE Reverse(_)
Reverse(list) == IF list = << >> THEN << >>
                 ELSE Append(Reverse(Tail(list)), Head(list))

Without(list, i) == SubSeq(list, 1, i - 1) \o SubSeq(list, i + 1, Len(list))

Neighbours(list) ==
    {Append(list, t) : t \in SupportTags}
    \cup {Without(list, i) : i \in 1..Len(list)}
    \cup {Reverse(list)}

\* C13: the mapping generated for a supports list S depends on nothing but
\* S (not on the slug), holds the twelve base fields whatever S is, and is
\* monotonic: a list T one step away from S that holds the tags of S yields
\* the fields of the mapping of S and possibly more, one whose tags S holds
\* yields no field that the mapping of S lacks (S within T in general is a
\* chain of such steps).
C13_FieldsMonotonic ==
    Generated =>
      /\ \A sl \in Members(Slugs) : field_mapping = generate_field_mapping(sl, supports)
      /\ BaseFieldNames \subseteq FieldNames(field_mapping)
      /\ BaseFieldNames = FieldNames(generate_field_mapping("book", << >>))
      /\ \A T \in Neighbours(supports) :
            /\ Members(supports) \subseteq Members(T) =>
                  FieldNames(field_mapping) \subseteq
                      FieldNames(generate_field_mapping("book", T))
            /\ Members(T) \subseteq Members(supports) =>
                  FieldNames(generate_field_mapping("book", T)) \subseteq
                      FieldNames(field_mapping)

\* the mapping of a CPT that supports the editor and comments
C13_Witness ==
    /\ step = "templates"
    /\ supports = <<"editor", "comments">>
    /\ {"content", "comment_status", "ping_status"} \subseteq FieldNames(field_mapping)
    /\ "title" \notin FieldNames(field_mapping)

Names(mapping) == [i \in 1..Len(mapping) |-> mapping[i].name]

\* C14 as stated: for supports = ["title", "editor"] the mapping has exactly
\* 13 fields.
C14_ThirteenFields ==
    (Generated /\ supports = <<"title", "editor">>) => Len(field_mapping) = 13

\* C14 amended: for supports = ["title", "editor"] the mapping has exactly
\* 14 fields, the twelve base fields id through meta followed by title and
\* content; author and featured_media are absent.
C14_FourteenFields ==
    (Generated /\ supports = <<"title", "editor">>) =>
        /\ Len(field_mapping) = 14
        /\ Names(field_mapping) =
               <<"id", "date", "date_gmt", "guid", "modified", "modified_gmt",
                 "password", "slug", "status", "type", "link", "meta",
                 "title", "content">>
        /\ "author" \notin FieldNames(field_mapping)
        /\ "featured_media" \notin FieldNames(field_mapping)

\* the mapping of scenario A has been generated
C14_Witness ==
    /\ step = "templates"
    /\ supports = <<"title", "editor">>
    /\ cpt_data.items[cpt_index].slug = "book"
    /\ Len(field_mapping) = 14

\* the templates of the CPT at BuiltIndex have been built from field_mapping
Built == step \in {"export", "exported"} \/ (step = "fields" /\ cpt_index > 1)
BuiltIndex == IF step = "fields" THEN cpt_index - 1 ELSE cpt_index

BodyFields(body) == {body[i].field : i \in 1..Len(body)}

\* C15: the POST body has a key for a field of the mapping iff the field is
\* not read-only, and no other key; meta maps to the nested object of four
\* placeholder custom-field tokens, title/content/excerpt map to
\* {raw: "{{field}}"}, any other field maps to the string "{{field}}"; the
\* PUT request carries the same body as the POST request.
C15_PostBody ==
    Built =>
      /\ \A i \in 1..Len(field_mapping) :
            field_mapping[i].name \in BodyFields(post_body)
                <=> ~field_mapping[i].readonly
      /\ BodyFields(post_body) \subseteq FieldNames(field_mapping)
      /\ Cardinality(BodyFields(post_body)) = Len(post_body)
      /\ \A i \in 1..Len(post_body) :
            LET f == post_body[i].field
                v == post_body[i].value
            IN IF f = "meta"
               THEN /\ v.shape = "object"
                    /\ {m.key : m \in Members(v.members)} =
                           {"custom_field_1", "custom_field_2", "acf_field",
                            "_custom_meta"}
                    /\ Members(v.members) \ {[key |-> "custom_field_1",
                                              value |-> "{{custom_value_1}}"],
                                             [key |-> "custom_field_2",
                                              value |-> "{{custom_value_2}}"],
                                             [key |-> "acf_field",
                                              value |-> "{{acf_value}}"],
                                             [key |-> "_custom_meta",
                                              value |-> "{{meta_value}}"]} = {}
               ELSE IF f \in {"title", "content", "excerpt"}
               THEN /\ v.shape = "object"
                    /\ v.members = <<[key |-> "raw", value |-> "{{" \o f \o "}}"]>>
               ELSE /\ v.shape = "string"
                    /\ v.members[1].value = "{{" \o f \o "}}"
      /\ post_request.method = "POST"
      /\ put_request.method = "PUT"
      /\ post_request.body = post_body
      /\ put_request.body = post_request.body

\* the body of a CPT that supports title and author
C15_Witness ==
    /\ Built
    /\ supports = <<"title", "author">>
    /\ BodyFields(post_body) =
           {"date", "date_gmt", "password", "slug", "status", "meta", "title",
            "author"}
    /\ put_request.body = post_body

ExpectedBase == IF api_url = UrlTypes THEN "https://a" ELSE "http://a"

\* C16: the two DELETE templates of a CPT have the method DELETE and the
\* URL {base}/wp-json/wp/v2/{slug}/{{post_id}}, each has exactly one query
\* parameter, named force, false for the trash variant and true for the
\* permanent one, and they differ in nothing else.
C16_DeleteTemplates ==
    Built =>
      LET slug == cpt_data.items[BuiltIndex].slug
      IN /\ delete_soft.method = "DELETE"
         /\ delete_hard.method = delete_soft.method
         /\ delete_soft.url = ExpectedBase \o "/wp-json/wp/v2/" \o slug \o "/{{post_id}}"
         /\ delete_hard.url = delete_soft.url
         /\ Len(delete_soft.queryParameters) = 1
         /\ Len(delete_hard.queryParameters) = 1
         /\ delete_soft.queryParameters[1] = [key |-> "force", value |-> FALSE]
         /\ delete_hard.queryParameters[1] = [key |-> "force", value |-> TRUE]
         /\ [delete_soft EXCEPT !.queryParameters[1].value = TRUE] = delete_hard

\* the DELETE templates of the second CPT of a catalog
C16_Witness ==
    /\ step = "export"
    /\ cpt_index = 2
    /\ api_url = UrlHome
    /\ delete_hard.url = "http://a/wp-json/wp/v2/event/{{post_id}}"
    /\ delete_soft.queryParameters[1].value = FALSE

\* ------------------------------------------------------------------------
\* C17
\* ------------------------------------------------------------------------
\* the catalog the rendering started from is the body of the one response
RenderedCatalog == log[1].body

C17_Held ==
    /\ pc = "rendering" => cpt_data = RenderedCatalog
    /\ (pc = "rendering" /\ Generated) =>
           LET entry == cpt_data.items[BuiltIndex]
           IN /\ supports = Get(entry.details, "supports", entry.details.supports, << >>)
              /\ field_mapping = generate_field_mapping(entry.slug, supports)

C17_Step ==
    pc = "rendering" =>
        /\ result' = result
        /\ step # "fields" => (field_mapping' = field_mapping /\ supports' = supports)

Exported == pc = "rendering" /\ step = "exported"

HasKey(obj, key) == \E i \in 1..Len(obj.v) : obj.v[i].k = key
RemoveKey(obj, key) == JObj(SelectSeq(obj.v, LAMBDA m : m.k # key))

\* C18: the text of the JSON export decodes, the decoded object holds the
\* timestamp field, and without that field it is exactly
\* {analysis: the analysis, cpts: the catalog}.
C18_JsonRoundTrip ==
    (Exported /\ export_format = "JSON") =>
        LET decoded == Decode(export_data.tokens)
        IN /\ export_data.syntax = "json"
           /\ decoded.ok
           /\ decoded.val.t = "object"
           /\ HasKey(decoded.val, "generated_at")
           /\ RemoveKey(decoded.val, "generated_at") =
                  JObj(<< Member("analysis", AnalysisJson(analysis)),
                          Member("cpts", CatalogJson(cpt_data)) >>)

C18_Witness ==
    /\ Exported /\ export_format = "JSON"
    /\ Len(cpt_data.items) > 1
    /\ \E i \in 1..Len(cpt_data.items) : cpt_data.items[i].details.supports # << >>
    /\ Decode(export_data.tokens).ok

\* ------------------------------------------------------------------------
\* C19
\* ------------------------------------------------------------------------
\* the values the clock takes
Clocks == {k * (CacheTtl \div 2) : k \in 0..MaxTicks}

\* the export carries a timestamp: the key of the timestamp field or the
\* text of a reading of the clock is among its tokens
Stamped(export) ==
    \E i \in 1..Len(export.tokens) :
        export.tokens[i] \in {StrTok("generated_at")}
                              \cup {StrTok(Timestamp(t)) : t \in Clocks}

C19_Held ==
    Exported =>
        /\ Stamped(export_data) <=> export_format \in {"JSON", "Insomnia Collection"}
        /\ export_format \in {"YAML", "Postman Collection"} =>
               \A t \in Clocks :
                   generate_export_data(cpt_data, analysis, export_format, t) = export_data

C19_Again ==
    (Exported /\ export_format \in {"YAML", "Postman Collection"}) =>
        export_data' = export_data

InvalidHeadersText ==
    custom_headers_text # "" /\ ~Decode(Lex(custom_headers_text)).ok

\* C20: when the button is pressed with a usable URL and a custom-headers
\* text that is not JSON, the warning is shown, the headers of the request
\* are exactly the two default headers, and the run goes on to the fetch:
\* it is fetching or has made an attempt, and when it is over it ended the
\* way the value the fetch returned makes it end.
C20_InvalidHeadersJson ==
    (pc # "idle" /\ halt \notin {"invalid_url", "missing_url"} /\ InvalidHeadersText) =>
        /\ "invalid_headers_json" \in Members(messages)
        /\ headers = DefaultHeaders
        /\ DOMAIN headers = {"Content-Type", "User-Agent"}
        /\ pc = "fetching" \/ Len(log) >= 1
        /\ pc = "done" => halt = AfterFetch(result).halt

C20_Witness ==
    /\ pc = "done" /\ InvalidHeadersText
    /\ "invalid_headers_json" \in Members(messages)
    /\ headers = DefaultHeaders
    /\ result.ok /\ Len(log) >= 1

\* ------------------------------------------------------------------------
\* C21
\* ------------------------------------------------------------------------
\* base64.b64decode: four characters give three bytes, less one for each "="
B64Index(c) == CHOOSE i \in 0..63 : B64Alphabet[i + 1] = c

RECURSIVE b64decode(_)
b64decode(chars) ==
    IF Len(chars) < 4 THEN << >>
    ELSE LET a == B64Index(chars[1])
             b == B64Index(chars[2])
             c == IF chars[3] = "=" THEN 0 ELSE B64Index(chars[3])
             d == IF chars[4] = "=" THEN 0 ELSE B64Index(chars[4])
             bytes == <<a * 4 + b \div 16, (b % 16) * 16 + c \div 4, (c % 4) * 64 + d>>
         IN SubSeq(bytes, 1, IF chars[3] = "=" THEN 1 ELSE IF chars[4] = "=" THEN 2 ELSE 3)
            \o b64decode(SubSeq(chars, 5, Len(chars)))

\* the fetch has set up its session
Fetched == pc # "idle" /\ session.open

\* C21: the session the fetch sets up carries the credentials of the auth
\* type.  Application Password: the Authorization header is "Basic "
\* followed by the base64 text of username:password (which decodes to the
\* bytes of username:password), on top of the headers supplied, and no
\* session credentials.  JWT Token: the Authorization header is "Bearer "
\* followed by the token.  Basic Auth: the session credentials are
\* (username, password) and the headers are the headers supplied.  None and
\* OAuth 2.0: no session credentials, and the headers are exactly the
\* headers supplied.
C21_Credentials ==
    Fetched =>
        /\ auth_type = "Application Password" =>
               LET text == app_username \o <<":">> \o app_password
                   code == b64encode(Encoded(text))
               IN /\ session.headers =
                         ("Authorization" :> "Basic " \o Text(code)) @@ headers
                  /\ b64decode(code) = Encoded(text)
                  /\ Len(code) = 4 * ((Len(text) + 2) \div 3)
                  /\ ~session.auth.set
        /\ auth_type = "JWT Token" =>
               /\ session.headers =
                      ("Authorization" :> "Bearer " \o Text(jwt_token)) @@ headers
               /\ ~session.auth.set
        /\ auth_type = "Basic Auth" =>
               /\ session.auth = [set |-> TRUE, username |-> username,
                                  password |-> password]
               /\ session.headers = headers
        /\ auth_type \in {"None", "OAuth 2.0"} =>
               /\ ~session.auth.set
               /\ session.headers = headers
               /\ "Authorization" \notin DOMAIN session.headers

C21_Witness ==
    /\ pc = "done" /\ session.open /\ Len(log) >= 1
    /\ auth_type = "Application Password"
    /\ app_username # << >> /\ app_password # << >>
    /\ session.headers["Authorization"] = "Basic YWw6eA=="

\* ------------------------------------------------------------------------
\* C22
\* ------------------------------------------------------------------------
RECURSIVE Sum(_)
Sum(list) == IF list = << >> THEN 0 ELSE Head(list) + Sum(Tail(list))

\* an attempt whose failure lets the loop go on
Retryable(o) == IsTimeout(o) \/ IsOtherHttp(o) \/ o.kind = "RequestException"

C22_Slept ==
    /\ \A i \in 1..Len(slept) : slept[i] = 2 ^ (i - 1)
    /\ pc = "fetching" => Len(slept) = Len(log)
    /\ (pc = "done" /\ Len(log) >= 1) =>
           /\ Len(slept) = Len(log) - 1
           /\ Sum(slept) = 2 ^ (Len(log) - 1) - 1
    /\ Len(log) = 0 => slept = << >>

C22_Sleep ==
    Len(log') = Len(log) + 1 =>
        IF Retryable(log'[Len(log')]) /\ attempt < max_retries - 1
        THEN slept' = Append(slept, 2 ^ attempt) /\ pc' = "fetching"
        ELSE slept' = slept /\ pc' = "done"

\* C22: after a retryable failure of the attempt with index a < max_retries - 1
\* the fetch sleeps 2^a seconds and goes on; after the last attempt, a
\* success or a terminal failure it does not sleep; so the i-th sleep lasts
\* 2^(i-1) seconds and a fetch that issued m attempts has slept m-1 times,
\* 2^(m-1) - 1 seconds in total.
C22_ExponentialBackoff == [](C22_Slept) /\ [][C22_Sleep]_vars

C22_Witness ==
    /\ pc = "done" /\ Len(log) = 3
    /\ slept = <<1, 2>>
    /\ Sum(slept) = 3

\* ------------------------------------------------------------------------
\* C23
\* ------------------------------------------------------------------------
\* something of the analysis, the rendering or the export has happened
Produced ==
    \/ stages # {}
    \/ step \notin {"none", "ready"}
    \/ analysis # NoAnalysis
    \/ field_mapping # << >>
    \/ post_request # NoRequest
    \/ export_data # NoExport

Failures == {"invalid_url", "missing_url", "fetch_failed", "empty_catalog"}

C23_Ordered ==
    /\ stages \subseteq AllStages
    /\ "render" \in stages => "analyze" \in stages
    /\ "export" \in stages => "render" \in stages
    /\ analysis # NoAnalysis => "analyze" \in stages
    /\ post_request # NoRequest => "analyze" \in stages
    /\ export_data # NoExport => "render" \in stages
    /\ Produced =>
           /\ Len(log) >= 1 /\ IsStatus(log[Len(log)], 200)
           /\ result = Success(log[Len(log)].body)
           /\ Truthy(result.data)
           /\ halt \notin Failures
           /\ ~InvalidUrl(url) /\ url # << >>
    /\ halt \in Failures => (pc = "done" /\ ~Produced)
    /\ (pc = "done" /\ (~result.ok \/ ~Truthy(result.data))) => halt \in Failures

C23_Step ==
    /\ pc # "done"
    /\ stages \subseteq stages'
    /\ Cardinality(stages') <= Cardinality(stages) + 1

\* C23: the stages run in the order fetch, analyze, render, export: a stage
\* has run only when the stage before it has, and stages are added one at a
\* time and never taken back.  Anything of the analysis, the rendering or
\* the export exists only after a fetch whose last attempt answered 200
\* with a non-empty catalog, on a usable URL.  An invalid or missing URL, a
\* failed fetch and an empty catalog end the run with nothing produced, and
\* a run that has ended takes no further step.
C23_StageOrder == [](C23_Ordered) /\ [][C23_Step]_vars

C23_Witness ==
    /\ pc = "rendering" /\ step = "exported"
    /\ stages = AllStages
    /\ Len(log) > 1 /\ IsTimeout(log[1])
    /\ Len(cpt_data.items) > 1
    /\ export_data # NoExport

\* ------------------------------------------------------------------------
\* C24
\* ------------------------------------------------------------------------
\* a fetch that issued requests and returned failure leaves the failure
\* memoized under the arguments of its call
C24_FailureStored ==
    (pc = "done" /\ log # << >> /\ ~result.ok) =>
        \E e \in cache :
            /\ e.key = CacheKey(url, auth_config, headers, timeout_duration, max_retries)
            /\ e.result = NoneResult
            /\ e.at <= now

C24_Press ==
    (Click /\ halt' \notin UrlErrors /\ \E e \in EntriesForCall : ~e.result.ok) =>
        /\ pc' = "done"
        /\ result' = NoneResult
        /\ halt' = "fetch_failed"
        /\ log' = << >>
        /\ ~session'.open
        /\ stages' = {}
        /\ cache' = cache

\* C24: a failed fetch is memoized like a successful one: a button press
\* whose arguments equal the key of a failure stored less than 300 seconds
\* ago ends as a failed fetch without opening a session or issuing a
\* request, whatever the server would answer now.
C24_FailuresMemoized == [](C24_FailureStored) /\ [][C24_Press]_vars

\* a second press 150 seconds after a fetch that failed, answered from the
\* cache
C24_Witness ==
    /\ runs = 2
    /\ pc = "done"
    /\ log = << >>
    /\ ~result.ok /\ halt = "fetch_failed"
    /\ \E e \in cache : e.at < now /\ now - e.at < CacheTtl /\ e.result = NoneResult

\* ------------------------------------------------------------------------
\* C25
\* ------------------------------------------------------------------------
NodeNames(doc) == {doc.nodes[i].name : i \in 1..Len(doc.nodes)}

\* the nodes one connection away from the nodes of a set
Successors(doc, names) ==
    UNION {Members(doc.connections[i].targets) :
               i \in {j \in 1..Len(doc.connections) : doc.connections[j].source \in names}}

\* the nodes reached from the nodes of a set by following connections
RECURSIVE Reachable(_, _)
Reachable(doc, names) ==
    IF Successors(doc, names) \subseteq names THEN names
    ELSE Reachable(doc, names \cup Successors(doc, names))

\* the node of the CRUD workflow with a given id
NodeWithId(doc, id) == CHOOSE n \in Members(doc.nodes) : n.id = id

WellWired(doc) ==
    \A i \in 1..Len(doc.connections) :
        /\ doc.connections[i].source \in NodeNames(doc)
        /\ Members(doc.connections[i].targets) \subseteq NodeNames(doc)

\* C25: in both workflow documents generated for a slug every connection is
\* filed under the name of a node of the document and leads to nodes of the
\* document, and in the CRUD workflow the update node and the delete node
\* are reached from the fetch node by following connections.
C25_ConnectionsNameNodes ==
    workflows # NoWorkflows =>
        /\ WellWired(workflows.complete_crud)
        /\ WellWired(workflows.sync_workflow)
        /\ {NodeWithId(workflows.complete_crud, "update_item").name,
            NodeWithId(workflows.complete_crud, "delete_item").name}
               \subseteq Reachable(workflows.complete_crud,
                                   {NodeWithId(workflows.complete_crud, "fetch_all").name})

====
